---- MODULE Spec2Model ----
(***************************************************************************)
(* PCL dump: capture of a serial byte stream into a buffer file, job       *)
(* boundary inference by an inactivity timeout, and render dispatch.       *)
(*                                                                         *)
(* Three threads share the buffer file and the serialPause event:          *)
(*   listenSerial  reads one byte from the line, writes and flushes it;    *)
(*   timerRun      samples the file size twice, TIMEOUT_S apart, and on    *)
(*                 an unchanged non-zero size renders and clears;          *)
(*   handleInput   sets serialPause on 'p'; on 'r' clears the buffer and   *)
(*                 then clears serialPause.                                *)
(*                                                                         *)
(* Time is discrete, one tick is half a second.  Python statements take    *)
(* no time; time passes only in time.sleep, in the blocking ser.read(1)    *)
(* and in the external processes of renderFile.  time.sleep(n) is taken    *)
(* to last exactly n.  Init is the state in which the three threads have   *)
(* been started and listenSerial has opened the buffer file with "wb" and  *)
(* stands at the head of its loop; the start-up before it (opening the     *)
(* line, the start-up commands) is not part of this state machine.  The    *)
(* loops of scope_dump_pro.py (listenSerial, timerRun, clearBuffer,        *)
(* startStopSerial) are statement for statement those of pcl_dump.py.      *)
(*                                                                         *)
(* The bytes of the line are numbered 1, 2, 3, ... in the order in which   *)
(* ser.read(1) returns them; 0 is the zero byte with which the file        *)
(* system fills a hole.                                                    *)
(***************************************************************************)
EXTENDS Integers, Sequences, FiniteSets, TLC

\* ------------------------------------------------------------------ bounds
\* number of bytes the line delivers in a run
MaxBytes == 3

\* Command log: the number of bytes of the line, and the number of commands
\* 'p' and 'r' given in a run
CmdBytes == 1
CmdLog == 3

\* Scenario B: the job's size in bytes, the time over which the buffer
\* grows (1 s) and the silence after it (2.5 s), in ticks
ScenarioBytes == 100
GrowTicks == 2
SilentTicks == 5

\* ------------------------------------------------------- program constants
TIMEOUT_S == 2

\* TIMEOUT_S in ticks of half a second
T == 2 * TIMEOUT_S
\* time.sleep(0.2) of the paused timer loop ends within one tick
PauseTicks == 1
\* the clock "time since the last append" saturates here
Cap == 2 * T + 1

Min(a, b) == IF a < b THEN a ELSE b
Max(a, b) == IF a > b THEN a ELSE b
Range(s) == {s[i] : i \in 1..Len(s)}
Zeros(n) == [i \in 1..n |-> 0]

VARIABLES
    KEEP_BUFFER,    \* -k: keep the buffer on disk
    lineBytes,      \* number of bytes the line delivers in this run
    paused,         \* serialPause.is_set()
    file,           \* contents of BUFFER_FILE
    wpos,           \* file offset of listenSerial's dumpfile handle
    nread,          \* number of bytes ser.read(1) has returned
    databyte,       \* the byte listenSerial holds (0: none)
    lpc,            \* listenSerial: "loop", "read", "write", "flush"
    mpc,            \* timerRun: "loop", "sleep", "psleep", "render",
                    \*           "preview", "clear"
    size_first_check,
    sleepLeft,      \* ticks left of the timer's time.sleep
    mstatus,        \* last status line of timerRun
    hpc,            \* handleInput: "idle", "resume" (between clearBuffer
                    \*              and serialPause.clear())
    convFailed,     \* the converter of the render in progress failed
    errors,         \* number of ERROR lines printed so far (saturating)
    \* -------- observation of the run (not program state)
    sinceApp,       \* ticks since the last append reached the file
    completes,      \* Complete events since the last append (saturating)
    rcount,         \* per byte: converter runs whose input held it
    lastInput,      \* input of the last converter run
    rerendered,     \* a converter run had the input of the run before it
    dropped,        \* bytes truncated by the clearBuffer of 'r'
    quiet,          \* since the last append: no command, and at that
                    \* append the gate was clear and no render under way
    scen,           \* scenario clock: ticks since the first byte was due
    procs,          \* external processes the renderFile call under way
                    \* has started
    cmds,           \* the commands 'p' and 'r' given so far (SpecC)
    \* -------- start-up and exit
    SERIAL_IGNORE,  \* -n: ignore the absence of the serial port
    lineOK,         \* serial.Serial(SERIAL_PORT, SERIAL_RATE) succeeds
    bufOK,          \* open(BUFFER_FILE, "wb") succeeds
    main,           \* main: "timer", "input", "listener", "done"
    exitStatus,     \* {} while the process runs, {n} after os._exit(n)
    out,            \* the shutdown lines printed
    bufExists,      \* BUFFER_FILE exists on disk
    quitAt,         \* what timerRun was at when 'q' was received
    sent,           \* the start-up commands written to the line so far
    status_last_capture,    \* scope_dump_pro.py: the job whose time the
                    \* GUI shows as last capture (0: none)
    \* -------- render options (set in the source, no command-line flag)
    CONV_FORMAT,    \* "pdf" or "png"
    PNG_PHOSPHOR,
    PREVIEW,
    \* -------- reports of timerRun and renderFile
    \*          (of the cycle that has just ended; none once the next begins)
    mbytes,         \* the byte count of "Receiving data (n bytes)", or 0
    failed,         \* external processes of renderFile that ended with a
                    \* non-zero status
    reported        \* the failures renderFile reported

pvars == <<KEEP_BUFFER, lineBytes, paused, file, wpos, nread, databyte, lpc, mpc,
           size_first_check, sleepLeft, mstatus, hpc, convFailed, errors>>
ovars == <<sinceApp, completes, rcount, lastInput, rerendered, dropped,
           quiet, scen, procs, cmds>>
svars0 == <<SERIAL_IGNORE, lineOK, bufOK, main, exitStatus, out, bufExists,
            quitAt, CONV_FORMAT, PNG_PHOSPHOR, PREVIEW, sent>>
svars == <<svars0, status_last_capture>>
rvars == <<mbytes, failed, reported>>
vars == <<pvars, ovars, svars, rvars>>

\* ---------------------------------------------------------------- helpers

\* getSize: seek to the end, tell
getSize(f) == Len(f)

\* write(2) of one byte at offset pos of a file opened without O_APPEND:
\* beyond the end the gap is filled with zero bytes
WriteAt(f, pos, b) ==
    IF pos >= Len(f)
    THEN f \o Zeros(pos - Len(f)) \o <<b>>
    ELSE [f EXCEPT ![pos + 1] = b]

\* clearBuffer without its test of KEEP_BUFFER
clearBufferIgnoringKeep(f, keep) == <<>>

\* clearBuffer without its truncation
clearBufferNever(f, keep) == f

\* clearBuffer: nothing with KEEP_BUFFER, else truncate a non-empty file
clearBuffer(f, keep) ==
    IF keep THEN f
    ELSE IF getSize(f) # 0 THEN <<>> ELSE f

\* the decision with the first sample tested against 0
DecisionFirstSample(first, last) ==
    IF first # 0
    THEN IF last = first THEN "complete" ELSE "receiving"
    ELSE "none"

\* the decision without the test of the second sample against 0
DecisionNoZeroTest(first, last) ==
    IF last = first THEN "complete" ELSE "receiving"

\* the decision without the comparison of the two samples
DecisionNoCompare(first, last) ==
    IF last # 0 THEN "complete" ELSE "none"

\* timerRun's decision from its two samples
Decision(first, last) ==
    IF last # 0
    THEN IF last = first THEN "complete" ELSE "receiving"
    ELSE "none"

\* Event.set as a toggle of the flag
serialPauseToggle(p) == ~p

\* serialPause.set(): the flag is true afterwards, whatever it was
serialPauseSet(p) == TRUE

\* listenSerial's guard on its loop body
MayRead(p) == ~p

\* renderFile without the except clause: a failure ends timerRun
AfterConvertRaise(ok) == IF ok THEN "preview" ELSE "dead"

\* renderFile after the converter: the except clause swallows the failure and
\* renderFile goes on ("dead" would be timerRun ended by the exception)
AfterConvert(ok) == "preview"

\* the converter under check_output: a non-zero status raises
\* CalledProcessError, and the except clause prints the ERROR line
ConverterReport(ok) == IF ok THEN {} ELSE {"converter"}

\* subprocess.run with the exit status reported as the converter's is
PhosphorReportStatus(ok) == IF ok THEN {} ELSE {"phosphor"}

\* the phosphor step under subprocess.run without check: the exit status is
\* not looked at, no exception is raised and nothing is printed
PhosphorReport(ok) == {}

\* the viewer under check_output: CalledProcessError, the WARNING line
ViewerReport(ok) == IF ok THEN {} ELSE {"viewer"}

\* renderFile with a failure of the phosphor step or the viewer raised
AfterPostProcessRaise(ok) == IF ok THEN "clear" ELSE "dead"

\* renderFile after the phosphor step and the viewer: it returns, and
\* timerRun goes on to clearBuffer
AfterPostProcess(ok) == "clear"

\* the external processes renderFile starts after the converter
PostProcesses ==
    (IF CONV_FORMAT = "png" /\ PNG_PHOSPHOR THEN {"phosphor"} ELSE {})
    \cup (IF PREVIEW THEN {"viewer"} ELSE {})

\* a sleep one tick short, and one tick long
TimerSleepShort == T - 1
TimerSleepLong == T + 1

\* time.sleep(TIMEOUT_S) of timerRun, in ticks
TimerSleep == T

\* saturating count: 0, 1, 2 = "two or more"
Sat(n) == Min(n + 1, 2)

\* lastInput before the first converter run
NoInput == <<-1>>

\* quitAt before 'q'
NoQuit == <<>>

\* the start-up commands
COMMANDS_STARTUP == <<"++srqauto 1", "++read", "++read">>

\* ------------------------------------------------------------------- Init
\* start-up is over: the line and the buffer file are open, main has started
\* the three threads and the process runs
Started ==
    /\ SERIAL_IGNORE = FALSE
    /\ lineOK = TRUE
    /\ bufOK = TRUE
    /\ main = "done"
    /\ exitStatus = {}
    /\ out = {}
    /\ bufExists = TRUE
    /\ quitAt = NoQuit
    /\ sent = COMMANDS_STARTUP
    /\ status_last_capture = 0

\* the render options as the source sets them
DefaultRender ==
    /\ CONV_FORMAT = "pdf"
    /\ PNG_PHOSPHOR = TRUE
    /\ PREVIEW = TRUE

NoReports ==
    /\ mbytes = 0
    /\ failed = {}
    /\ reported = {}

RunState(n) ==
    /\ NoReports
    /\ KEEP_BUFFER \in BOOLEAN
    /\ lineBytes = n
    /\ paused = FALSE
    /\ file = <<>>
    /\ wpos = 0
    /\ nread = 0
    /\ databyte = 0
    /\ lpc = "loop"
    /\ mpc = "loop"
    /\ size_first_check = 0
    /\ sleepLeft = 0
    /\ mstatus = "none"
    /\ hpc = "idle"
    /\ convFailed = FALSE
    /\ errors = 0
    /\ sinceApp = Cap
    /\ completes = 0
    /\ rcount = [b \in 1..lineBytes |-> 0]
    /\ lastInput = NoInput
    /\ rerendered = FALSE
    /\ dropped = {}
    /\ quiet = FALSE
    /\ scen = 0
    /\ procs = {}
    /\ cmds = <<>>

InitBytes(n) ==
    /\ RunState(n)
    /\ Started
    /\ DefaultRender

Init == InitBytes(MaxBytes)

\* ----------------------------------------------------------- listenSerial
ListenCheck ==
    /\ lpc = "loop"
    /\ MayRead(paused)
    /\ lpc' = "read"
    /\ UNCHANGED <<svars, rvars, KEEP_BUFFER, lineBytes, paused, file, wpos, nread, databyte, mpc,
                   size_first_check, sleepLeft, mstatus, hpc, convFailed,
                   errors>>
    /\ UNCHANGED ovars

ListenRead ==
    /\ lpc = "read"
    /\ nread < lineBytes
    /\ nread' = nread + 1
    /\ databyte' = nread + 1
    /\ lpc' = "write"
    /\ UNCHANGED <<svars, rvars, KEEP_BUFFER, lineBytes, paused, file, wpos, mpc, size_first_check,
                   sleepLeft, mstatus, hpc, convFailed, errors>>
    /\ UNCHANGED ovars

\* dumpfile.write with no dumpfile.flush after it: the byte stays in the
\* handle's buffer and the loop goes on to the next read
ListenWriteNoFlush ==
    /\ lpc = "write"
    /\ lpc' = "loop"
    /\ UNCHANGED <<svars, rvars, KEEP_BUFFER, lineBytes, paused, file, wpos, nread, databyte, mpc,
                   size_first_check, sleepLeft, mstatus, hpc, convFailed,
                   errors>>
    /\ UNCHANGED ovars

ListenWrite ==
    /\ lpc = "write"
    /\ lpc' = "flush"
    /\ UNCHANGED <<svars, rvars, KEEP_BUFFER, lineBytes, paused, file, wpos, nread, databyte, mpc,
                   size_first_check, sleepLeft, mstatus, hpc, convFailed,
                   errors>>
    /\ UNCHANGED ovars

ListenFlush ==
    /\ lpc = "flush"
    /\ file' = WriteAt(file, wpos, databyte)
    /\ wpos' = wpos + 1
    /\ databyte' = 0
    /\ lpc' = "loop"
    /\ sinceApp' = 0
    /\ completes' = 0
    /\ quiet' = (mpc \in {"loop", "sleep"} /\ hpc = "idle" /\ ~paused)
    /\ UNCHANGED <<svars, rvars, KEEP_BUFFER, lineBytes, paused, nread, mpc, size_first_check,
                   sleepLeft, mstatus, hpc, convFailed, errors>>
    /\ UNCHANGED <<rcount, lastInput, rerendered, dropped, scen, procs,
                   cmds>>

\* --------------------------------------------------------------- timerRun
TimerFirstCheck ==
    /\ mpc = "loop"
    /\ ~paused
    /\ bufExists
    /\ size_first_check' = getSize(file)
    /\ mstatus' = IF getSize(file) = 0 THEN "waiting" ELSE mstatus
    /\ mbytes' = 0
    /\ failed' = {}
    /\ reported' = {}
    /\ mpc' = "sleep"
    /\ sleepLeft' = TimerSleep
    /\ UNCHANGED <<svars, KEEP_BUFFER, lineBytes, paused, file, wpos, nread, databyte, lpc,
                   hpc, convFailed, errors>>
    /\ UNCHANGED ovars

TimerLastCheck ==
    /\ mpc = "sleep"
    /\ sleepLeft = 0
    /\ LET size_last_check == getSize(file)
           d == Decision(size_first_check, size_last_check)
       IN  /\ mpc' = IF d = "complete" THEN "render" ELSE "loop"
           /\ mstatus' = CASE d = "complete" -> "complete"
                           [] d = "receiving" -> "receiving"
                           [] OTHER -> mstatus
           /\ mbytes' = CASE d = "complete" -> 0
                          [] d = "receiving" -> size_last_check
                          [] OTHER -> mbytes
           /\ UNCHANGED <<failed, reported>>
           /\ completes' = IF d = "complete" THEN Sat(completes)
                           ELSE completes
    /\ UNCHANGED <<svars, KEEP_BUFFER, lineBytes, paused, file, wpos, nread, databyte, lpc,
                   size_first_check, sleepLeft, hpc, convFailed, errors>>
    /\ UNCHANGED <<sinceApp, rcount, lastInput, rerendered, dropped, quiet,
                   scen, procs, cmds>>

TimerPaused ==
    /\ mpc = "loop"
    /\ paused
    /\ mpc' = "psleep"
    /\ sleepLeft' = PauseTicks
    /\ mbytes' = 0
    /\ failed' = {}
    /\ reported' = {}
    /\ UNCHANGED <<svars, KEEP_BUFFER, lineBytes, paused, file, wpos, nread, databyte, lpc,
                   size_first_check, mstatus, hpc, convFailed, errors>>
    /\ UNCHANGED ovars

TimerPausedReport ==
    /\ mpc = "psleep"
    /\ mstatus' = "paused"
    /\ UNCHANGED rvars
    /\ mpc' = "loop"
    /\ sleepLeft' = 0
    /\ UNCHANGED <<svars, KEEP_BUFFER, lineBytes, paused, file, wpos, nread, databyte, lpc,
                   size_first_check, hpc, convFailed, errors>>
    /\ UNCHANGED ovars

\* renderFile: the converter reads BUFFER_FILE and exits with a status
RenderConvertBody ==
    /\ mpc = "render"
    /\ \E ok \in BOOLEAN :
        /\ mpc' = AfterConvert(ok)
        /\ convFailed' = ~ok
        /\ errors' = IF ok THEN errors ELSE Sat(errors)
        /\ failed' = IF ok THEN {} ELSE {"converter"}
        /\ reported' = ConverterReport(ok)
    /\ UNCHANGED mbytes
    /\ rcount' = [b \in DOMAIN rcount |->
                    IF b \in Range(file) THEN Sat(rcount[b]) ELSE rcount[b]]
    /\ rerendered' = (rerendered \/ (file # <<>> /\ file = lastInput))
    /\ lastInput' = file
    /\ UNCHANGED <<svars0, KEEP_BUFFER, lineBytes, paused, file, wpos, nread, databyte, lpc,
                   size_first_check, sleepLeft, mstatus, hpc>>
    /\ procs' = {"converter"}
    /\ UNCHANGED <<sinceApp, completes, dropped, quiet, scen, cmds>>

\* pcl_dump.py has no last-capture time
RenderConvert ==
    /\ RenderConvertBody
    /\ UNCHANGED status_last_capture

\* renderFile after the try/except of the converter: the phosphor step
\* (png only) and the viewer (PREVIEW), neither guarded by the converter's
\* outcome
RenderPreview ==
    /\ mpc = "preview"
    /\ procs' = procs \cup PostProcesses
    /\ \E pok, vok \in BOOLEAN :
        LET pfail == "phosphor" \in PostProcesses /\ ~pok
            vfail == "viewer" \in PostProcesses /\ ~vok
        IN  /\ failed' = failed \cup (IF pfail THEN {"phosphor"} ELSE {})
                                \cup (IF vfail THEN {"viewer"} ELSE {})
            /\ reported' = reported \cup PhosphorReport(~pfail)
                                    \cup ViewerReport(~vfail)
            /\ mpc' = AfterPostProcess(~pfail /\ ~vfail)
    /\ UNCHANGED mbytes
    /\ UNCHANGED <<svars, KEEP_BUFFER, lineBytes, paused, file, wpos, nread, databyte, lpc,
                   size_first_check, sleepLeft, mstatus, hpc, convFailed,
                   errors>>
    /\ UNCHANGED <<sinceApp, completes, rcount, lastInput, rerendered,
                   dropped, quiet, scen, cmds>>

TimerClear ==
    /\ mpc = "clear"
    /\ file' = clearBuffer(file, KEEP_BUFFER)
    /\ mpc' = "loop"
    /\ procs' = {}
    /\ UNCHANGED <<svars, rvars, KEEP_BUFFER, lineBytes, paused, wpos, nread, databyte, lpc,
                   size_first_check, sleepLeft, mstatus, hpc, convFailed,
                   errors>>
    /\ UNCHANGED <<sinceApp, completes, rcount, lastInput, rerendered,
                   dropped, quiet, scen, cmds>>

\* ------------------------------------------------------------ handleInput
\* 'p': serialPause.set()
PauseBody ==
    /\ hpc = "idle"
    /\ paused' = serialPauseSet(paused)
    /\ quiet' = FALSE
    /\ UNCHANGED <<svars, rvars, KEEP_BUFFER, lineBytes, file, wpos, nread, databyte, lpc, mpc,
                   size_first_check, sleepLeft, mstatus, hpc, convFailed,
                   errors>>
    /\ UNCHANGED <<sinceApp, completes, rcount, lastInput, rerendered,
                   dropped, scen, procs>>

Pause ==
    /\ PauseBody
    /\ UNCHANGED cmds

\* 'r': clearBuffer(), then serialPause.clear()
ResumeClearBody ==
    /\ hpc = "idle"
    /\ KEEP_BUFFER \/ bufExists
    /\ file' = clearBuffer(file, KEEP_BUFFER)
    /\ hpc' = "resume"
    /\ dropped' = dropped \cup (Range(file) \ Range(file'))
    /\ quiet' = FALSE
    /\ UNCHANGED <<svars, rvars, KEEP_BUFFER, lineBytes, paused, wpos, nread, databyte, lpc, mpc,
                   size_first_check, sleepLeft, mstatus, convFailed, errors>>
    /\ UNCHANGED <<sinceApp, completes, rcount, lastInput, rerendered,
                   scen, procs>>

ResumeClear ==
    /\ ResumeClearBody
    /\ UNCHANGED cmds

\* the end of the 'r' branch without serialPause.clear()
ResumeGateNoClear ==
    /\ hpc = "resume"
    /\ hpc' = "idle"
    /\ UNCHANGED <<svars, rvars, KEEP_BUFFER, lineBytes, paused, file, wpos, nread, databyte,
                   lpc, mpc, size_first_check, sleepLeft, mstatus, convFailed,
                   errors>>
    /\ UNCHANGED ovars

ResumeGate ==
    /\ hpc = "resume"
    /\ paused' = FALSE
    /\ hpc' = "idle"
    /\ UNCHANGED <<svars, rvars, KEEP_BUFFER, lineBytes, file, wpos, nread, databyte, lpc, mpc,
                   size_first_check, sleepLeft, mstatus, convFailed, errors>>
    /\ UNCHANGED ovars

\* ------------------------------------------------------------------- time
\* Statements take no time: the clock stands still while a thread is at one.
MayTick ==
    /\ lpc \in {"loop", "read"}
    /\ hpc = "idle"
    /\ mpc \in {"sleep", "psleep", "render", "preview"}
    /\ mpc \in {"sleep", "psleep"} => sleepLeft > 0

TickBody ==
    /\ MayTick
    /\ sleepLeft' = Max(sleepLeft - 1, 0)
    /\ sinceApp' = Min(sinceApp + 1, Cap)
    /\ UNCHANGED <<svars, rvars, KEEP_BUFFER, lineBytes, paused, file, wpos, nread,
                   databyte, lpc, mpc, size_first_check, mstatus, hpc,
                   convFailed, errors>>
    /\ UNCHANGED <<completes, rcount, lastInput, rerendered, dropped, quiet,
                   procs, cmds>>

Tick ==
    /\ TickBody
    /\ UNCHANGED scen

Next ==
    \/ ListenCheck
    \/ ListenRead
    \/ ListenWrite
    \/ ListenFlush
    \/ TimerFirstCheck
    \/ TimerLastCheck
    \/ TimerPaused
    \/ TimerPausedReport
    \/ RenderConvert
    \/ RenderPreview
    \/ TimerClear
    \/ Pause
    \/ ResumeClear
    \/ ResumeGate
    \/ Tick

Spec == Init /\ [][Next]_vars

\* ------------------------------------------------------------- Scenario B
\* The line delivers ScenarioBytes bytes, the first at time 0 and the last
\* GrowTicks later, and is silent from then on; no command is given.  The
\* monitor starts anywhere in an idle cycle.
JobBytes == [i \in 1..ScenarioBytes |-> i]

InitB ==
    /\ NoReports
    /\ KEEP_BUFFER \in BOOLEAN
    /\ lineBytes = ScenarioBytes
    /\ paused = FALSE
    /\ file = <<>>
    /\ wpos = 0
    /\ nread = 0
    /\ databyte = 0
    /\ lpc = "read"
    /\ \/ mpc = "loop" /\ sleepLeft = 0 /\ mstatus = "none"
       \/ mpc = "sleep" /\ sleepLeft \in 0..TimerSleep /\ mstatus = "waiting"
    /\ size_first_check = 0
    /\ hpc = "idle"
    /\ convFailed = FALSE
    /\ errors = 0
    /\ sinceApp = Cap
    /\ completes = 0
    /\ rcount = [b \in 1..lineBytes |-> 0]
    /\ lastInput = NoInput
    /\ rerendered = FALSE
    /\ dropped = {}
    /\ quiet = FALSE
    /\ scen = 0
    /\ procs = {}
    /\ cmds = <<>>
    /\ Started
    /\ DefaultRender

ScenarioRead ==
    /\ ListenRead
    /\ scen <= GrowTicks
    /\ nread + 1 = lineBytes => scen = GrowTicks

ScenarioTick ==
    /\ TickBody
    /\ scen = 0 => wpos >= 1
    /\ scen = GrowTicks => wpos = lineBytes
    /\ scen' = Min(scen + 1, GrowTicks + 1)

NextB ==
    \/ ListenCheck
    \/ ScenarioRead
    \/ ListenWrite
    \/ ListenFlush
    \/ TimerFirstCheck
    \/ TimerLastCheck
    \/ RenderConvert
    \/ RenderPreview
    \/ TimerClear
    \/ ScenarioTick

SpecB == InitB /\ [][NextB]_vars

\* ------------------------------------------------------------ command log
\* The run of Spec on a line of CmdBytes bytes, with the commands 'p' and
\* 'r' recorded in the order in which handleInput receives them; at most
\* CmdLog commands are given.
InitC == InitBytes(CmdBytes)

CmdPause ==
    /\ PauseBody
    /\ Len(cmds) < CmdLog
    /\ cmds' = Append(cmds, "p")

CmdResumeClear ==
    /\ ResumeClearBody
    /\ Len(cmds) < CmdLog
    /\ cmds' = Append(cmds, "r")

NextC ==
    \/ ListenCheck
    \/ ListenRead
    \/ ListenWrite
    \/ ListenFlush
    \/ TimerFirstCheck
    \/ TimerLastCheck
    \/ TimerPaused
    \/ TimerPausedReport
    \/ RenderConvert
    \/ RenderPreview
    \/ TimerClear
    \/ CmdPause
    \/ CmdResumeClear
    \/ ResumeGate
    \/ Tick

SpecC == InitC /\ [][NextC]_vars

\* --------------------------------------------------------- render options
\* The run of Spec on a line of CmdBytes bytes under every setting of the
\* render options CONV_FORMAT, PNG_PHOSPHOR and PREVIEW.
InitR ==
    /\ RunState(CmdBytes)
    /\ Started
    /\ CONV_FORMAT \in {"pdf", "png"}
    /\ PNG_PHOSPHOR \in BOOLEAN
    /\ PREVIEW \in BOOLEAN

NextR ==
    \/ ListenCheck
    \/ ListenRead
    \/ ListenWrite
    \/ ListenFlush
    \/ TimerFirstCheck
    \/ TimerLastCheck
    \/ TimerPaused
    \/ TimerPausedReport
    \/ RenderConvert
    \/ RenderPreview
    \/ TimerClear
    \/ Pause
    \/ ResumeClear
    \/ ResumeGate
    \/ Tick

SpecR == InitR /\ [][NextR]_vars

\* --------------------------------------------------- start-up of pcl_dump.py
\* main starts timerRun, handleInput and listenSerial in this order;
\* listenSerial opens the line, sends the start-up commands and opens the
\* buffer file before its loop.  When the process starts the buffer file is
\* empty or does not exist.  os._exit ends every thread at once.
EXIT_QUIT == 0
EXIT_FAILURE == 5

FailedLines ==
    {"Failed to open interface", "Unable to continue, exiting...", "Goodbye"}
QuitLines == {"'Q' received, exiting...", "Goodbye"}

InitS ==
    /\ NoReports
    /\ KEEP_BUFFER \in BOOLEAN
    /\ SERIAL_IGNORE \in BOOLEAN
    /\ lineOK \in BOOLEAN
    /\ bufOK \in BOOLEAN
    /\ main = "timer"
    /\ exitStatus = {}
    /\ out = {}
    /\ bufExists \in BOOLEAN
    /\ quitAt = NoQuit
    /\ sent = <<>>
    /\ status_last_capture = 0
    /\ DefaultRender
    /\ lineBytes = CmdBytes
    /\ paused = FALSE
    /\ file = <<>>
    /\ wpos = 0
    /\ nread = 0
    /\ databyte = 0
    /\ lpc = "unstarted"
    /\ mpc = "unstarted"
    /\ hpc = "unstarted"
    /\ size_first_check = 0
    /\ sleepLeft = 0
    /\ mstatus = "none"
    /\ convFailed = FALSE
    /\ errors = 0
    /\ sinceApp = Cap
    /\ completes = 0
    /\ rcount = [b \in 1..lineBytes |-> 0]
    /\ lastInput = NoInput
    /\ rerendered = FALSE
    /\ dropped = {}
    /\ quiet = FALSE
    /\ scen = 0
    /\ procs = {}
    /\ cmds = <<>>

\* what no start-up step changes
StartupUnchanged ==
    UNCHANGED <<KEEP_BUFFER, lineBytes, paused, file, wpos, nread, databyte,
                size_first_check, sleepLeft, mstatus, convFailed, errors,
                ovars, SERIAL_IGNORE, lineOK, bufOK, bufExists, quitAt,
                CONV_FORMAT, PNG_PHOSPHOR, PREVIEW, rvars, sent,
                status_last_capture>>

\* an exit that ends the calling thread only
ExitThread(n, lines) ==
    /\ out' = out \cup lines
    /\ exitStatus' = {n}
    /\ hpc' = "exited"
    /\ UNCHANGED <<lpc, mpc, main>>

\* os._exit(n) after printing lines
Exit(n, lines) ==
    /\ out' = out \cup lines
    /\ exitStatus' = {n}
    /\ lpc' = "exited"
    /\ mpc' = "exited"
    /\ hpc' = "exited"
    /\ main' = "exited"

MainStartTimer ==
    /\ main = "timer"
    /\ mpc' = "loop"
    /\ main' = "input"
    /\ StartupUnchanged
    /\ UNCHANGED <<lpc, hpc, exitStatus, out>>

MainStartInput ==
    /\ main = "input"
    /\ hpc' = "idle"
    /\ main' = "listener"
    /\ StartupUnchanged
    /\ UNCHANGED <<lpc, mpc, exitStatus, out>>

MainStartListener ==
    /\ main = "listener"
    /\ lpc' = "start"
    /\ main' = "done"
    /\ StartupUnchanged
    /\ UNCHANGED <<mpc, hpc, exitStatus, out>>

\* listenSerial with SERIAL_IGNORE: the else branch, and the thread returns
ListenSkip ==
    /\ lpc = "start"
    /\ SERIAL_IGNORE
    /\ lpc' = "skipped"
    /\ StartupUnchanged
    /\ UNCHANGED <<mpc, hpc, main, exitStatus, out>>

\* serial.Serial(SERIAL_PORT, SERIAL_RATE)
ListenOpenLine ==
    /\ lpc = "start"
    /\ ~SERIAL_IGNORE
    /\ IF lineOK
       THEN /\ lpc' = "cmds"
            /\ UNCHANGED <<mpc, hpc, main, exitStatus, out>>
       ELSE Exit(EXIT_FAILURE, FailedLines)
    /\ StartupUnchanged

\* logger.printConsole("Executing any startup commands..."): the module has
\* no name logger, the call raises NameError and the thread ends; the
\* start-up commands and the open of the buffer file after it do not run
ListenStartupCommands ==
    /\ lpc = "cmds"
    /\ lpc' = "dead"
    /\ StartupUnchanged
    /\ UNCHANGED <<mpc, hpc, main, exitStatus, out>>

\* timerRun: open(BUFFER_FILE, 'rb') of a file that does not exist raises
\* FileNotFoundError, which nothing catches: the thread ends
TimerOpenFails ==
    /\ mpc = "loop"
    /\ ~paused
    /\ ~bufExists
    /\ mpc' = "dead"
    /\ StartupUnchanged
    /\ UNCHANGED <<lpc, hpc, main, exitStatus, out>>

\* 'r': the open(BUFFER_FILE, 'rb') of clearBuffer raises in the same way
\* and ends handleInput
ResumeClearFails ==
    /\ hpc = "idle"
    /\ ~KEEP_BUFFER
    /\ ~bufExists
    /\ hpc' = "dead"
    /\ StartupUnchanged
    /\ UNCHANGED <<lpc, mpc, main, exitStatus, out>>

\* 'q': the two lines, and os._exit(0)
Quit ==
    /\ hpc = "idle"
    /\ Exit(EXIT_QUIT, QuitLines)
    /\ StartupUnchanged

\* time passes when main and every thread alive is in a sleep or waits for
\* input
TickS ==
    /\ main = "done"
    /\ lpc \in {"skipped", "dead"}
    /\ hpc \in {"idle", "dead"}
    /\ mpc \in {"sleep", "psleep", "dead"}
    /\ mpc \in {"sleep", "psleep"} => sleepLeft > 0
    /\ sleepLeft' = Max(sleepLeft - 1, 0)
    /\ sinceApp' = Min(sinceApp + 1, Cap)
    /\ UNCHANGED <<svars, rvars, KEEP_BUFFER, lineBytes, paused, file, wpos, nread,
                   databyte, lpc, mpc, size_first_check, mstatus, hpc,
                   convFailed, errors>>
    /\ UNCHANGED <<completes, rcount, lastInput, rerendered, dropped, quiet,
                   scen, procs, cmds>>

NextS ==
    \/ MainStartTimer
    \/ MainStartInput
    \/ MainStartListener
    \/ ListenSkip
    \/ ListenOpenLine
    \/ ListenStartupCommands
    \/ TimerFirstCheck
    \/ TimerLastCheck
    \/ TimerPaused
    \/ TimerPausedReport
    \/ Pause
    \/ ResumeClear
    \/ ResumeGate
    \/ TimerOpenFails
    \/ ResumeClearFails
    \/ Quit
    \/ TickS

SpecS == InitS /\ [][NextS]_vars

\* ------------------------------------------------------------------- quit
\* The run of Spec on a line of CmdBytes bytes with the command 'q': the
\* first line, time.sleep(0.5) during which the other threads go on, the
\* second line and os._exit(0).
InitQ == InitBytes(CmdBytes)

QuitReceived ==
    /\ hpc = "idle"
    /\ hpc' = "quit"
    /\ out' = out \cup {"'Q' received, exiting..."}
    /\ quitAt' = <<mpc, paused, mstatus>>
    /\ UNCHANGED <<rvars, KEEP_BUFFER, lineBytes, paused, file, wpos, nread,
                   databyte, lpc, mpc, size_first_check, sleepLeft, mstatus,
                   convFailed, errors>>
    /\ UNCHANGED <<SERIAL_IGNORE, lineOK, bufOK, main, exitStatus, bufExists,
                   CONV_FORMAT, PNG_PHOSPHOR, PREVIEW, sent,
                   status_last_capture>>
    /\ UNCHANGED ovars

\* the half second of time.sleep(0.5) is one tick
QuitSleep ==
    /\ hpc = "quit"
    /\ lpc \in {"loop", "read"}
    /\ mpc \in {"sleep", "psleep", "render", "preview"}
    /\ mpc \in {"sleep", "psleep"} => sleepLeft > 0
    /\ hpc' = "goodbye"
    /\ sleepLeft' = Max(sleepLeft - 1, 0)
    /\ sinceApp' = Min(sinceApp + 1, Cap)
    /\ UNCHANGED <<svars, rvars, KEEP_BUFFER, lineBytes, paused, file, wpos,
                   nread, databyte, lpc, mpc, size_first_check, mstatus,
                   convFailed, errors>>
    /\ UNCHANGED <<completes, rcount, lastInput, rerendered, dropped, quiet,
                   scen, procs, cmds>>

QuitExit ==
    /\ hpc = "goodbye"
    /\ Exit(EXIT_QUIT, {"Goodbye"})
    /\ UNCHANGED <<rvars, KEEP_BUFFER, lineBytes, paused, file, wpos, nread,
                   databyte, size_first_check, sleepLeft, mstatus,
                   convFailed, errors>>
    /\ UNCHANGED <<SERIAL_IGNORE, lineOK, bufOK, bufExists, quitAt,
                   CONV_FORMAT, PNG_PHOSPHOR, PREVIEW, sent,
                   status_last_capture>>
    /\ UNCHANGED ovars

NextQ ==
    \/ ListenCheck
    \/ ListenRead
    \/ ListenWrite
    \/ ListenFlush
    \/ TimerFirstCheck
    \/ TimerLastCheck
    \/ TimerPaused
    \/ TimerPausedReport
    \/ RenderConvert
    \/ RenderPreview
    \/ TimerClear
    \/ Pause
    \/ ResumeClear
    \/ ResumeGate
    \/ Tick
    \/ QuitReceived
    \/ QuitSleep
    \/ QuitExit

SpecQ == InitQ /\ [][NextQ]_vars

\* ------------------------------------------------- scope_dump_pro.py
\* scope_dump_pro.py from process start, on a line of CmdBytes bytes.  Its
\* main opens the serial line in SerialListener.__init__ and writes the
\* start-up commands itself, then starts the timer, input and listener
\* threads in that order and stays in the GUI loop.  listenSerial opens the
\* buffer file "wb" and goes to its loop.  BUFFER_FILE may hold the data of
\* an earlier run, or not exist.  renderFile sets status_last_capture.
PREVIEW_NATIVE == TRUE

\* a byte left in BUFFER_FILE by an earlier run: none of the bytes of the
\* line
LeftoverByte == ScenarioBytes + 1

BufferFailedLines ==
    {"Failed to open buffer file", "Unable to continue, exiting...",
     "Goodbye"}

InitP ==
    /\ NoReports
    /\ KEEP_BUFFER \in BOOLEAN
    /\ SERIAL_IGNORE \in BOOLEAN
    /\ lineOK \in BOOLEAN
    /\ bufOK \in BOOLEAN
    /\ main = "init"
    /\ exitStatus = {}
    /\ out = {}
    /\ bufExists \in BOOLEAN
    /\ quitAt = NoQuit
    /\ sent = <<>>
    /\ status_last_capture = 0
    /\ DefaultRender
    /\ lineBytes = CmdBytes
    /\ paused = FALSE
    /\ file \in (IF bufExists THEN {<<>>, <<LeftoverByte>>} ELSE {<<>>})
    /\ wpos = 0
    /\ nread = 0
    /\ databyte = 0
    /\ lpc = "unstarted"
    /\ mpc = "unstarted"
    /\ hpc = "unstarted"
    /\ size_first_check = 0
    /\ sleepLeft = 0
    /\ mstatus = "none"
    /\ convFailed = FALSE
    /\ errors = 0
    /\ sinceApp = Cap
    /\ completes = 0
    /\ rcount = [b \in 1..lineBytes |-> 0]
    /\ lastInput = NoInput
    /\ rerendered = FALSE
    /\ dropped = {}
    /\ quiet = FALSE
    /\ scen = 0
    /\ procs = {}
    /\ cmds = <<>>

\* SerialListener.__init__: serial.Serial(port, speed) unless SERIAL_IGNORE
MainOpenLine ==
    /\ main = "init"
    /\ IF SERIAL_IGNORE \/ lineOK
       THEN /\ main' = "cmds"
            /\ UNCHANGED <<lpc, mpc, hpc, exitStatus, out>>
       ELSE Exit(EXIT_FAILURE, FailedLines)
    /\ StartupUnchanged

\* main: time.sleep(COMMANDS_DELAY), then sendMessage(command) for the next
\* command of COMMANDS_STARTUP
MainSendCommand ==
    /\ main = "cmds"
    /\ ~SERIAL_IGNORE
    /\ Len(sent) < Len(COMMANDS_STARTUP)
    /\ sent' = Append(sent, COMMANDS_STARTUP[Len(sent) + 1])
    /\ UNCHANGED <<KEEP_BUFFER, lineBytes, paused, file, wpos, nread,
                   databyte, size_first_check, sleepLeft, mstatus,
                   convFailed, errors, ovars, SERIAL_IGNORE, lineOK, bufOK,
                   bufExists, quitAt, CONV_FORMAT, PNG_PHOSPHOR, PREVIEW,
                   rvars, status_last_capture>>
    /\ UNCHANGED <<lpc, mpc, hpc, main, exitStatus, out>>

\* main: the for loop over COMMANDS_STARTUP has ended, or SERIAL_IGNORE
MainCommandsDone ==
    /\ main = "cmds"
    /\ SERIAL_IGNORE \/ Len(sent) = Len(COMMANDS_STARTUP)
    /\ main' = "timer"
    /\ StartupUnchanged
    /\ UNCHANGED <<lpc, mpc, hpc, exitStatus, out>>

\* listenSerial: open(self.bufferfile, "wb") creates the file or truncates
\* it; on OSError the three lines and os._exit(5)
ListenOpenBuffer ==
    /\ lpc = "start"
    /\ ~SERIAL_IGNORE
    /\ IF bufOK
       THEN /\ lpc' = "loop"
            /\ file' = <<>>
            /\ bufExists' = TRUE
            /\ UNCHANGED <<mpc, hpc, main, exitStatus, out>>
       ELSE /\ Exit(EXIT_FAILURE, BufferFailedLines)
            /\ UNCHANGED <<file, bufExists>>
    /\ UNCHANGED <<KEEP_BUFFER, lineBytes, paused, wpos, nread, databyte,
                   size_first_check, sleepLeft, mstatus, convFailed, errors,
                   ovars, SERIAL_IGNORE, lineOK, bufOK, quitAt, CONV_FORMAT,
                   PNG_PHOSPHOR, PREVIEW, rvars, sent, status_last_capture>>

\* the time of a job, as shown: not the time shown before it
JobTime(shown) == IF shown = 1 THEN 2 ELSE 1

\* Trace.renderFile: gui.status_last_capture.set(now) is the statement before
\* the try of the converter
RenderConvertPro ==
    /\ RenderConvertBody
    /\ status_last_capture' = JobTime(status_last_capture)

\* the external processes Trace.renderFile starts after the converter: the
\* viewer only without the native preview
PostProcessesPro ==
    (IF CONV_FORMAT = "png" /\ PNG_PHOSPHOR THEN {"phosphor"} ELSE {})
    \cup (IF PREVIEW /\ ~PREVIEW_NATIVE THEN {"viewer"} ELSE {})

\* Trace.renderFile after the try/except of the converter
RenderPreviewPro ==
    /\ mpc = "preview"
    /\ procs' = procs \cup PostProcessesPro
    /\ \E pok, vok \in BOOLEAN :
        LET pfail == "phosphor" \in PostProcessesPro /\ ~pok
            vfail == "viewer" \in PostProcessesPro /\ ~vok
        IN  /\ failed' = failed \cup (IF pfail THEN {"phosphor"} ELSE {})
                                \cup (IF vfail THEN {"viewer"} ELSE {})
            /\ reported' = reported \cup PhosphorReport(~pfail)
                                    \cup ViewerReport(~vfail)
            /\ mpc' = AfterPostProcess(~pfail /\ ~vfail)
    /\ UNCHANGED mbytes
    /\ UNCHANGED <<svars, KEEP_BUFFER, lineBytes, paused, file, wpos, nread,
                   databyte, lpc, size_first_check, sleepLeft, mstatus, hpc,
                   convFailed, errors>>
    /\ UNCHANGED <<sinceApp, completes, rcount, lastInput, rerendered,
                   dropped, quiet, scen, cmds>>

\* time passes when main is in the GUI loop and every thread alive is in a
\* sleep, in a blocking read or in an external process
TickP ==
    /\ main = "done"
    /\ lpc \in {"loop", "read", "skipped"}
    /\ hpc \in {"idle", "dead"}
    /\ mpc \in {"sleep", "psleep", "render", "preview", "dead"}
    /\ mpc \in {"sleep", "psleep"} => sleepLeft > 0
    /\ sleepLeft' = Max(sleepLeft - 1, 0)
    /\ sinceApp' = Min(sinceApp + 1, Cap)
    /\ UNCHANGED <<svars, rvars, KEEP_BUFFER, lineBytes, paused, file, wpos,
                   nread, databyte, lpc, mpc, size_first_check, mstatus, hpc,
                   convFailed, errors>>
    /\ UNCHANGED <<completes, rcount, lastInput, rerendered, dropped, quiet,
                   scen, procs, cmds>>

NextP ==
    \/ MainOpenLine
    \/ MainSendCommand
    \/ MainCommandsDone
    \/ MainStartTimer
    \/ MainStartInput
    \/ MainStartListener
    \/ ListenSkip
    \/ ListenOpenBuffer
    \/ ListenCheck
    \/ ListenRead
    \/ ListenWrite
    \/ ListenFlush
    \/ TimerFirstCheck
    \/ TimerLastCheck
    \/ TimerPaused
    \/ TimerPausedReport
    \/ RenderConvertPro
    \/ RenderPreviewPro
    \/ TimerClear
    \/ Pause
    \/ ResumeClear
    \/ ResumeGate
    \/ TimerOpenFails
    \/ ResumeClearFails
    \/ TickP

SpecP == InitP /\ [][NextP]_vars

\* ================================================================= claims

\* the step in which an append reaches the file
IsAppend == lpc = "flush" /\ lpc' = "loop"
\* the step in which timerRun takes its second sample
IsLastCheck == mpc = "sleep" /\ mpc' # "sleep"
\* the step in which the clearBuffer of 'r' runs
IsResumeClear == hpc = "idle" /\ hpc' = "resume"
\* the step in which the clearBuffer after renderFile runs
IsTimerClear == mpc = "clear" /\ mpc' # "clear"

\* C1: an append that lands less than T after the append before it finds
\* that the monitor has emitted no Complete between the two.
C1_NoCompleteWhileAppending ==
    [][(IsAppend /\ sinceApp < T) => completes = 0]_vars

\* C1 witness: the gate is clear, the monitor took its first sample after
\* the last append and is in its sleep, and the next append, less than T
\* after the last one, is about to land.
C1_Witness ==
    /\ ~paused
    /\ lpc = "flush"
    /\ 0 < sinceApp /\ sinceApp < T
    /\ mpc = "sleep" /\ sleepLeft < T
    /\ size_first_check = Len(file) /\ Len(file) > 0

\* C2 (as claimed): when an append lands on a non-empty buffer at least T
\* after the append before it (gate clear, no command, no render under way
\* at that earlier append), the monitor has emitted exactly one Complete
\* between the two.
C2_ExactlyOneCompleteAfterT ==
    [][(IsAppend /\ quiet /\ sinceApp >= T /\ Len(file) > 0)
        => completes = 1]_vars

\* C2 (amended): after an append made with the gate clear and no render
\* under way, and with no command since, the monitor has emitted at least
\* one Complete once more than 2T have passed, and in default mode never
\* more than one.
C2_CompleteWithinTwoT ==
    quiet => /\ sinceApp > 2 * T => completes >= 1
             /\ ~KEEP_BUFFER => completes <= 1

\* C2 witness: default mode; more than 2T after the last append the one
\* Complete has been emitted, its render is over and the buffer is cleared.
C2_Witness ==
    /\ quiet /\ ~KEEP_BUFFER /\ sinceApp > 2 * T
    /\ completes = 1 /\ mpc = "sleep" /\ file = <<>> /\ wpos > 0

\* C3 (as claimed): in Scenario B, once the silence has lasted its 2.5 s the
\* monitor has emitted exactly one Complete, and a converter run had the
\* ScenarioBytes bytes of the job as its input.
C3_CompleteWithinSilence ==
    (wpos = lineBytes /\ sinceApp > SilentTicks)
        => (completes = 1 /\ lastInput \in {NoInput, JobBytes})

\* C3 (amended): in Scenario B no Complete is emitted while the buffer
\* grows nor in the first T of the silence; once the silence has lasted
\* more than 2T at least one Complete has been emitted, in default mode
\* exactly one; and every converter run has exactly the ScenarioBytes bytes
\* of the job as its input.
C3_ScenarioB ==
    /\ wpos < lineBytes => (completes = 0 /\ mpc \in {"loop", "sleep"})
    /\ wpos = lineBytes =>
        /\ sinceApp < T => (completes = 0 /\ mpc \in {"loop", "sleep"})
        /\ sinceApp > 2 * T => completes >= 1
        /\ ~KEEP_BUFFER => completes <= 1
    /\ lastInput # NoInput => lastInput = JobBytes

\* C3 witness: default mode; the silence has lasted more than its 2.5 s, the
\* one Complete has been emitted, the converter has run on the job's bytes
\* and the buffer is cleared.
C3_Witness ==
    /\ ~KEEP_BUFFER /\ wpos = lineBytes /\ sinceApp > SilentTicks
    /\ completes = 1 /\ lastInput = JobBytes
    /\ file = <<>> /\ mpc = "sleep"

\* C4: a cycle whose two samples are both 0 reports "waiting", starts no
\* render and returns to the head of the loop.
C4_EmptyBufferNeverCompletes ==
    [][(IsLastCheck /\ size_first_check = 0 /\ getSize(file) = 0)
        => (mpc' = "loop" /\ mstatus' = "waiting"
            /\ completes' = completes)]_vars

\* C4 witness: the monitor is at its second sample of a cycle whose first
\* sample was 0, the buffer is still empty, and nothing was ever appended.
C4_Witness ==
    /\ mpc = "sleep" /\ sleepLeft = 0
    /\ size_first_check = 0 /\ file = <<>> /\ wpos = 0
    /\ mstatus = "waiting"

\* C5 (as claimed): every byte read from the line is in the input of at
\* most one converter run, and a byte in none is still in the listener's
\* hand or in the buffer, or was discarded by the clearBuffer of 'r'.
C5_NoByteLostOrDuplicated ==
    \A b \in 1..nread :
        /\ rcount[b] <= 1
        /\ rcount[b] = 0 =>
            (b = databyte \/ b \in Range(file) \/ b \in dropped)

\* C6 (as claimed): while the gate stays set, no byte is read from the
\* line and the buffer does not grow.
C6_PausedNoReadNoGrowth ==
    [][(paused /\ paused') =>
        (nread' = nread /\ Len(file') <= Len(file))]_vars

\* C7: in default mode the clearBuffer of 'r' leaves the buffer empty,
\* whatever it held; the gate is cleared only after that clearBuffer; and
\* between the two a paused listener at the head of its loop issues no read.
C7_ResumeTruncatesBeforeGate ==
    [][/\ (IsResumeClear /\ ~KEEP_BUFFER) => file' = <<>>
       /\ (paused /\ ~paused') => (hpc = "resume" /\ hpc' = "idle")
       /\ (hpc = "resume" /\ paused /\ lpc = "loop") => lpc' = "loop"]_vars

\* C7 witness: default mode, paused, the clearBuffer of 'r' has just
\* discarded bytes of the job in progress and the gate is not yet cleared.
C7_Witness ==
    /\ ~KEEP_BUFFER /\ paused /\ hpc = "resume"
    /\ file = <<>> /\ dropped # {} /\ lpc = "loop"

\* C8 (as claimed): in keep-buffer mode the clearBuffer of 'r' leaves the
\* buffer empty.
C8_KeepModeResumeTruncates ==
    [][(IsResumeClear /\ KEEP_BUFFER) => file' = <<>>]_vars

\* C9 (as claimed): no converter run has the same non-empty input as the
\* converter run before it.
C9_NeverRenderedAgain == ~rerendered

\* C10: a failed conversion does not end timerRun and is reported; in
\* default mode the clearBuffer after it leaves the buffer empty and
\* timerRun returns to the head of its loop.
C10_FailedConversionStillClears ==
    /\ [](mpc # "dead")
    /\ [](convFailed => errors > 0)
    /\ [][(IsTimerClear /\ convFailed /\ ~KEEP_BUFFER)
            => (file' = <<>> /\ mpc' = "loop")]_vars

\* C10 witness: default mode; a conversion has failed earlier, and the
\* converter has now run successfully on a later job.
C10_Witness ==
    /\ ~KEEP_BUFFER /\ errors > 0
    /\ mpc = "preview" /\ ~convFailed
    /\ lastInput # NoInput /\ Len(lastInput) > 0

\* C12: while renderFile or the clearBuffer after it is under way the
\* monitor takes no sample and emits no Complete; the clearBuffer after
\* renderFile returns to the head of the loop, in default mode with an
\* empty buffer; and the first sample of a cycle is the size of the buffer
\* at that moment, so 0 when no byte has arrived since.
C12_SynchronousHandOff ==
    [][/\ mpc \in {"render", "preview", "clear"} =>
            /\ size_first_check' = size_first_check
            /\ completes' <= completes
            /\ mpc' \in {"render", "preview", "clear", "loop"}
       /\ IsTimerClear => mpc' = "loop"
       /\ (IsTimerClear /\ ~KEEP_BUFFER) => file' = <<>>
       /\ (mpc = "loop" /\ mpc' = "sleep") =>
            size_first_check' = getSize(file)]_vars

\* C12 witness: default mode; a render is over, no byte has arrived since
\* its clearBuffer, and the first sample after it has seen size 0.
C12_Witness ==
    /\ ~KEEP_BUFFER /\ lastInput # NoInput /\ Len(lastInput) > 0
    /\ mpc = "sleep" /\ sleepLeft = TimerSleep
    /\ size_first_check = 0 /\ file = <<>> /\ wpos = Len(lastInput)
    /\ nread = wpos /\ mstatus = "waiting"

\* C13 (as claimed): while the gate is set the monitor takes no sample.
C13_PausedNoSampling ==
    [][paused => ~(IsLastCheck \/ (mpc = "loop" /\ mpc' = "sleep"))]_vars

\* C16 (as claimed): the buffer shrinks only between jobs: by the
\* clearBuffer of 'r', which starts a new job, or by the clearBuffer after
\* renderFile when every byte in the buffer was in a converter input.
C16_ShrinksOnlyBetweenJobs ==
    [][Len(file') < Len(file) =>
        \/ IsResumeClear
        \/ /\ IsTimerClear
           /\ \A b \in Range(file) \ {0} : rcount[b] >= 1]_vars

\* C17 (as claimed): the buffer shrinks only in the clearBuffer after
\* renderFile.
C17_OnlyRendererShrinks ==
    [][Len(file') < Len(file) => IsTimerClear]_vars

\* C17 (amended): the buffer shrinks only in a clearBuffer, the one after
\* renderFile or the one of 'r', only in default mode and then to size 0;
\* no step of listenSerial and no sample of timerRun shrinks it.
C17_OnlyClearBufferShrinks ==
    [][Len(file') < Len(file) =>
        /\ IsTimerClear \/ IsResumeClear
        /\ ~KEEP_BUFFER
        /\ file' = <<>>]_vars

\* C17 witness: the gate is clear, the buffer held at least two bytes and
\* the clearBuffer of 'r' has just emptied it.
C17_Witness ==
    /\ ~paused /\ hpc = "resume" /\ file = <<>>
    /\ Cardinality(dropped) >= 2 /\ wpos = Cardinality(dropped)

\* C18: listenSerial holds at most one byte that is not yet in the file:
\* a read is issued only when every byte read before it has been written
\* and flushed, and a write and a flush carry the byte of the last read.
C18_ReadWriteFlushOrder ==
    /\ lpc \in {"loop", "read"} => (nread = wpos /\ databyte = 0)
    /\ lpc \in {"write", "flush"} => (nread = wpos + 1 /\ databyte = nread)

\* C18 witness: the second byte has been read and written and is about to
\* be flushed; the first one is in the file.
C18_Witness ==
    /\ lpc = "flush" /\ nread = 2 /\ wpos = 1 /\ file = <<1>>

\* C19 (as claimed): when the monitor decides Complete, every byte read
\* from the line is in the file.
C19_NoCompleteWithByteInFlight ==
    [][(IsLastCheck /\ mpc' = "render") => (nread = wpos /\ databyte = 0)]_vars

\* C11: when the converter fails, the renderFile call starts neither the
\* phosphor step nor the viewer
C11_FailedConversionStartsNothingElse ==
    convFailed => procs \subseteq {"converter"}

\* the step in which handleInput receives 'p'
IsCmdPause == cmds' # cmds /\ cmds'[Len(cmds')] = "p"

\* C14: a pause given right after a pause changes nothing: the gate, the
\* buffer file and the three threads are as the first pause left them
C14_PauseIdempotent ==
    [][(IsCmdPause /\ cmds # <<>> /\ cmds[Len(cmds)] = "p")
          => UNCHANGED pvars]_vars

C14_Witness ==
    /\ cmds = <<"p", "p">>
    /\ paused
    /\ file = <<1>>
    /\ hpc = "idle"

\* C15: the gate starts clear, and once handleInput has dealt with a command
\* the gate is set exactly if the last command given was 'p'
C15_GateFollowsLastCommand ==
    /\ cmds = <<>> => ~paused
    /\ (hpc = "idle" /\ cmds # <<>>) => (paused <=> cmds[Len(cmds)] = "p")

C15_Witness ==
    /\ cmds = <<"p", "p", "r">>
    /\ hpc = "idle"
    /\ ~paused

\* C20: when the line cannot be opened (SERIAL_IGNORE off) or the buffer
\* file cannot be opened for writing, listenSerial neither ends in another
\* way nor reaches its loop, and the process exits with status 5 only in
\* this case and with the three shutdown lines printed
C20_OpenFailureExitsWithFive ==
    LET failure == ~SERIAL_IGNORE /\ (~lineOK \/ ~bufOK)
    IN  /\ failure => lpc \in {"unstarted", "start", "cmds", "exited"}
        /\ failure /\ lpc = "exited" /\ EXIT_QUIT \notin exitStatus
               => (exitStatus = {EXIT_FAILURE} /\ FailedLines \subseteq out)
        /\ ~failure => EXIT_FAILURE \notin exitStatus

C25_PhosphorFailureReported ==
    /\ "phosphor" \in procs => (CONV_FORMAT = "png" /\ PNG_PHOSPHOR)
    /\ "phosphor" \in failed =>
        ("phosphor" \in reported /\ mpc \in {"clear", "loop"})

\* C22: 'q' leads within its half second to os._exit(0) and to nothing
\* else; the exit ends timerRun, listenSerial and handleInput at once, with
\* status 0 and both lines printed, and nothing happens after it; and a step
\* that shortens the buffer file leaves it empty
C22_QuitExitsClean ==
    [][/\ hpc = "quit" => hpc' \in {"quit", "goodbye"}
       /\ hpc = "goodbye" => hpc' \in {"goodbye", "exited"}
       /\ exitStatus' # {} =>
            /\ exitStatus' = {EXIT_QUIT}
            /\ lpc' = "exited" /\ mpc' = "exited" /\ hpc' = "exited"
            /\ QuitLines \subseteq out'
            /\ file' = file
       /\ exitStatus # {} => UNCHANGED vars
       /\ Len(file') < Len(file) => file' = <<>>]_vars

\* C22 witness: 'q' was received while the converter of a render was
\* running; the process has exited with status 0 and the buffer file is as
\* the converter was reading it
C22_Witness ==
    /\ exitStatus = {EXIT_QUIT}
    /\ quitAt # NoQuit
    /\ quitAt[1] = "render"
    /\ file = <<1>>
    /\ lpc = "exited" /\ mpc = "exited"

\* C23 (as claimed): with SERIAL_IGNORE listenSerial opens nothing, reads
\* nothing and writes nothing, and timerRun keeps running and declares no
\* Complete
C23_IgnoreModeMonitorKeepsRunning ==
    SERIAL_IGNORE =>
        /\ lpc \in {"unstarted", "start", "skipped", "exited"}
        /\ nread = 0 /\ wpos = 0 /\ file = <<>>
        /\ completes = 0
        /\ mpc # "dead"

\* the step in which the converter reads the buffer file and ends
IsConvert == mpc = "render" /\ mpc' # "render"

\* C24 (as claimed): while the gate stays set and no 'r' is given, the
\* buffer file does not change
C24_PausePreservesBuffer ==
    [][(paused /\ paused' /\ ~IsResumeClear) => file' = file]_vars

\* C27 (as claimed): the converter reads as many bytes as the second sample
\* of the Complete cycle counted (which is the count of its first sample)
C27_ConverterReadsSample ==
    [][IsConvert => getSize(file) = size_first_check]_vars

\* C28 (as claimed): the converter is never started on an empty buffer file
C28_ConverterInputNotEmpty ==
    [][IsConvert => getSize(file) > 0]_vars

\* C29 (as claimed): the buffer file holds only bytes listenSerial wrote,
\* from offset 0 on: no byte of it is the zero byte of a hole
C29_NoHoleAfterTruncation ==
    \A i \in 1..Len(file) : file[i] # 0

\* C26: at its second sample timerRun decides from the two samples alone:
\* S1 = 0 changes nothing (also with S0 > 0); S1 = S0, not 0, reports
\* Complete and starts the render; S1 # S0, not 0, reports Receiving with S1
\* as the byte count and starts none
C26_DecisionFromTwoSamples ==
    [][IsLastCheck =>
        LET S0 == size_first_check
            S1 == getSize(file)
        IN  /\ S1 = 0 =>
                /\ mpc' = "loop"
                /\ UNCHANGED <<mstatus, mbytes, completes, file>>
            /\ (S1 # 0 /\ S1 = S0) =>
                /\ mpc' = "render"
                /\ mstatus' = "complete"
                /\ completes' = Sat(completes)
            /\ (S1 # 0 /\ S1 # S0) =>
                /\ mpc' = "loop"
                /\ mstatus' = "receiving"
                /\ mbytes' = S1
                /\ completes' = completes]_vars

\* C26 witness: a cycle whose samples were 1 and 2 has just reported
\* "Receiving data (2 bytes)" and started no render
C26_Witness ==
    /\ mpc = "loop"
    /\ mstatus = "receiving" /\ mbytes = 2
    /\ size_first_check = 1 /\ file = <<1, 2>>
    /\ completes = 0

\* C30: a Complete is declared no earlier than T after the last append; and
\* after an append made with the gate clear and no render under way, with no
\* command since, a second sample taken less than T after it reports
\* Receiving, and a Complete has been declared once more than 2T have passed
C30_BoundedResponse ==
    [][/\ (IsLastCheck /\ mpc' = "render") => sinceApp >= T
       /\ (IsLastCheck /\ quiet /\ sinceApp < T) =>
            (mpc' = "loop" /\ mstatus' = "receiving")
       /\ (quiet' /\ sinceApp' > 2 * T) => completes' >= 1]_vars

\* C30 witness: the first sample of a cycle just preceded the last append,
\* that cycle reported Receiving, and the cycle after it has declared
\* Complete 2T after the append
C30_Witness ==
    /\ quiet /\ ~paused
    /\ mpc = "render" /\ mstatus = "complete" /\ completes = 1
    /\ sinceApp = 2 * T
    /\ Len(file) = 2

\* C31 (as claimed): with SERIAL_IGNORE no start-up command is written;
\* without it, once the line is open and listenSerial is past its start-up
\* (at its loop, or ended), and before any byte is read, every start-up
\* command has been written, in list order
C31_StartupCommandsBeforeFirstRead ==
    /\ SERIAL_IGNORE => sent = <<>>
    /\ (~SERIAL_IGNORE /\ lineOK
            /\ lpc \notin {"unstarted", "start", "cmds", "exited"})
          => sent = COMMANDS_STARTUP
    /\ nread > 0 => sent = COMMANDS_STARTUP

\* C33 (as claimed): when the line opens and the buffer file can be opened
\* for writing, listenSerial does not end before its loop
C33_ListenerReachesLoop ==
    (~SERIAL_IGNORE /\ lineOK /\ bufOK) => lpc # "dead"

\* a step of the paused branch of timerRun: into time.sleep(0.2), or out of
\* it with the report of the stopped status
IsPausedPoll ==
    \/ mpc = "loop" /\ mpc' = "psleep"
    \/ mpc = "psleep" /\ mpc' = "loop" /\ mstatus' = "paused"

\* C34 (as claimed): while the gate is set timerRun does nothing but its
\* paused poll (the sleep and the report of the stopped status); with the
\* gate clear, the poll sleeps no longer than 200 ms and the step timerRun
\* takes at the head of its loop starts a sampling cycle.
C34_PausedOnlyPolls ==
    [][/\ (paused /\ mpc' # mpc) => IsPausedPoll
       /\ (~paused /\ mpc = "psleep") => sleepLeft <= PauseTicks
       /\ (~paused /\ mpc = "loop" /\ mpc' # mpc) => mpc' = "sleep"]_vars

\* C32 (as claimed): timerRun never opens a buffer file that does not exist
\* (the open raises and ends the thread), no converter input holds a byte
\* left by an earlier run, and when the line is listened to timerRun has
\* taken no sample before listenSerial opened the buffer file.
C32_BufferOpenedBeforeFirstCycle ==
    /\ mpc # "dead"
    /\ LeftoverByte \notin Range(lastInput)
    /\ (~SERIAL_IGNORE /\ mpc \in {"sleep", "render", "preview", "clear"})
          => lpc \notin {"unstarted", "start"}

\* the step in which the converter of Trace.renderFile ends
IsConvertPro == mpc = "render" /\ mpc' = "preview"

\* C35 (as claimed): a job whose conversion succeeds sets the last-capture
\* time to the time of the job, and a job whose conversion fails leaves it
\* as it was.
C35_TimestampOnSuccessOnly ==
    [][/\ (IsConvertPro /\ ~convFailed') =>
            status_last_capture' = JobTime(status_last_capture)
       /\ (IsConvertPro /\ convFailed') =>
            status_last_capture' = status_last_capture]_vars

====
